---- MODULE Spec2Model ----
(***************************************************************************)
(* Model of ~docs/serve-catalog.py: a local static file server whose       *)
(* CatalogHandler overrides translate_path (one prefix rewrite rule) and   *)
(* log_message (suppressed), run by a single blocking HTTPServer loop.     *)
(*                                                                         *)
(* Strings are sequences of one-character strings, so that startswith,     *)
(* slicing, lstrip and os.path.join are computed as Python computes them.  *)
(* Paths are POSIX paths (posixpath.join, separator "/").                  *)
(***************************************************************************)
EXTENDS Naturals, Sequences, FiniteSets

(* ------------------------------ bounds -------------------------------- *)

\* longest remainder appended to a request-path prefix
MaxLen == 2
\* longest remainder in the history specification
MaxLenHist == 0
\* connections that may wait in the listen backlog
MaxBacklog == 1
\* tracebacks the request loop may print before the model stops raising
MaxTracebacks == 1

(* ------------------------------ strings ------------------------------- *)

NUL == "NUL"

Alphabet == {"/", ".", "x", "?", NUL}

Strings(n) == UNION {[1..k -> Alphabet] : k \in 0..n}

StartsWith(s, p) == Len(s) >= Len(p) /\ SubSeq(s, 1, Len(p)) = p

EndsWith(s, p) == Len(s) >= Len(p) /\ SubSeq(s, Len(s) - Len(p) + 1, Len(s)) = p

\* s[n:] with Python's 0-based slice start
SliceFrom(s, n) == SubSeq(s, n + 1, Len(s))

RECURSIVE LStripSlash(_)
\* str.lstrip('/'): every leading '/' is removed
LStripSlash(s) == IF s # <<>> /\ Head(s) = "/" THEN LStripSlash(Tail(s)) ELSE s

\* posixpath.join(a, b)
PathJoin(a, b) ==
    IF StartsWith(b, <<"/">>) THEN b
    ELSE IF a = <<>> \/ EndsWith(a, <<"/">>) THEN a \o b
    ELSE a \o <<"/">> \o b

(* ------------------------- module-level globals ----------------------- *)

PORT == 8169

\* os.path.dirname(__file__): the absolute directory holding the script
ScriptDir == <<"/", "p", "/", "d">>

UI_DIR == PathJoin(PathJoin(ScriptDir, <<".", ".">>), <<"U", "I">>)

DOCS_DIR == ScriptDir

AssetsPrefix == <<"/", "a", "s", "s", "e", "t", "s", "/">>

AssetsName == <<"A", "s", "s", "e", "t", "s">>

(* --------------------------- translate_path --------------------------- *)

UsesAssetsRuleNoSlash(path) == StartsWith(path, <<"/", "a", "s", "s", "e", "t", "s">>)

\* the branch translate_path takes
UsesAssetsRule(path) == StartsWith(path, AssetsPrefix)

AssetsBranchInDocs(path) == PathJoin(DOCS_DIR, SliceFrom(path, 1))

AssetsBranch(path) == PathJoin(PathJoin(UI_DIR, AssetsName), SliceFrom(path, 8))

DocsBranchStripOne(path) ==
    PathJoin(DOCS_DIR, IF StartsWith(path, <<"/">>) THEN Tail(path) ELSE path)

DocsBranch(path) == PathJoin(DOCS_DIR, LStripSlash(path))

translate_path(path) ==
    IF UsesAssetsRule(path)
    THEN [rule |-> "assets", path |-> AssetsBranch(path)]
    ELSE [rule |-> "docs", path |-> DocsBranch(path)]

(* ----------------------------- filesystem ---------------------------- *)

RECURSIVE SplitSlash(_)
\* str.split('/'): the components between separators, empty ones included
SplitSlash(s) ==
    IF s = <<>> THEN << <<>> >>
    ELSE LET r == SplitSlash(Tail(s)) IN
         IF Head(s) = "/" THEN << <<>> >> \o r
         ELSE << <<Head(s)>> \o Head(r) >> \o Tail(r)

\* a node of the tree is the sequence of names leading to it from "/"
RootNode == <<>>

ProjectNode == << <<"p">> >>

DocsNode == << <<"p">>, <<"d">> >>

UiNode == << <<"p">>, <<"U", "I">> >>

AssetsNode == << <<"p">>, <<"U", "I">>, AssetsName >>

\* the directories that exist (the project tree around the script)
Dirs == {RootNode, ProjectNode, DocsNode, UiNode, AssetsNode}

\* regular files that may exist: docs/x, UI/Assets/x and x in the project root
DocsFile == Append(DocsNode, <<"x">>)

AssetsFile == Append(AssetsNode, <<"x">>)

OutsideFile == Append(ProjectNode, <<"x">>)

FileCandidates == {DocsFile, AssetsFile, OutsideFile}

\* the bytes of a regular file, one distinct value per file
Content(node) == <<"bytes", node>>

\* the result of a walk through something that is no directory
Missing == << <<"missing">> >>

RECURSIVE Walk(_, _)
\* the kernel's path walk: every component is looked up in a directory
Walk(comps, at) ==
    IF comps = <<>> THEN at
    ELSE IF at \notin Dirs THEN Missing
    ELSE LET c == Head(comps) IN
         IF c = <<>> \/ c = <<".">> THEN Walk(Tail(comps), at)
         ELSE IF c = <<".", ".">>
              THEN Walk(Tail(comps), IF at = <<>> THEN at ELSE SubSeq(at, 1, Len(at) - 1))
              ELSE Walk(Tail(comps), Append(at, c))

HasNul(s) == \E i \in 1..Len(s) : s[i] = NUL

\* the node an absolute or cwd-relative path names
NodeOf(s, cwdNode) ==
    Walk(SplitSlash(s), IF StartsWith(s, <<"/">>) THEN RootNode ELSE cwdNode)

\* os.path.isdir: False for a path with an embedded NUL (ValueError swallowed)
IsDir(s, cwdNode) == ~HasNul(s) /\ NodeOf(s, cwdNode) \in Dirs

\* os.path.isfile
IsFile(s, cwdNode, fs) == ~HasNul(s) /\ NodeOf(s, cwdNode) \in fs

(* ------------------ SimpleHTTPRequestHandler (inherited) -------------- *)

RECURSIVE UpTo(_, _)
\* the part of s before the first occurrence of character c
UpTo(s, c) == IF s = <<>> \/ Head(s) = c THEN <<>> ELSE <<Head(s)>> \o UpTo(Tail(s), c)

\* urllib.parse.urlsplit(p).path: without the query, and without the
\* network location a leading '//' introduces
UrlPath(p) ==
    LET q == UpTo(p, "?") IN
    IF StartsWith(q, <<"/", "/">>)
    THEN LET rest == SliceFrom(q, 2) IN SliceFrom(rest, Len(UpTo(rest, "/")))
    ELSE q

IndexHtml == <<"i", "n", "d", "e", "x", ".", "h", "t", "m", "l">>

IndexHtm == <<"i", "n", "d", "e", "x", ".", "h", "t", "m">>

NoBody == <<"empty">>

ErrorPage == <<"error-page">>

Listing(node) == <<"listing", node>>

\* what one request leaves behind: the rewrite rule used, the path it gave,
\* the status line and body sent, and whether the handler raised
Result(rule, resolved, status, body, raised) ==
    [rule |-> rule, resolved |-> resolved, status |-> status, body |-> body,
     raised |-> raised]

\* the body of a 200 answer to GET; HEAD sends the headers alone
BodyFor(method, body) == IF method = "GET" THEN body ELSE NoBody

\* send_head followed by copyfile, for GET and HEAD
send_head(method, path, cwdNode, fs) ==
    LET t == translate_path(path)
        R(status, body, raised) == Result(t.rule, t.path, status, body, raised)
    IN
    IF IsDir(t.path, cwdNode)
    THEN IF ~EndsWith(UrlPath(path), <<"/">>)
         THEN R(301, NoBody, FALSE)
         ELSE IF IsFile(PathJoin(t.path, IndexHtml), cwdNode, fs)
              THEN R(200, BodyFor(method, Content(NodeOf(PathJoin(t.path, IndexHtml), cwdNode))), FALSE)
         ELSE IF IsFile(PathJoin(t.path, IndexHtm), cwdNode, fs)
              THEN R(200, BodyFor(method, Content(NodeOf(PathJoin(t.path, IndexHtm), cwdNode))), FALSE)
         ELSE R(200, BodyFor(method, Listing(NodeOf(t.path, cwdNode))), FALSE)
    ELSE IF EndsWith(t.path, <<"/">>)
         THEN R(404, BodyFor(method, ErrorPage), FALSE)
    ELSE IF HasNul(t.path)
         \* open() raises ValueError, which "except OSError" does not catch
         THEN R(0, NoBody, TRUE)
    ELSE IF NodeOf(t.path, cwdNode) \in fs
         THEN R(200, BodyFor(method, Content(NodeOf(t.path, cwdNode))), FALSE)
    ELSE R(404, BodyFor(method, ErrorPage), FALSE)

Methods == {"GET", "HEAD", "POST", "BAD"}

\* handle_one_request: a malformed request line is answered 400, a method
\* without a do_ handler 501, GET and HEAD go through send_head
handle_one_request(method, path, cwdNode, fs) ==
    IF method = "BAD" THEN Result("none", <<>>, 400, ErrorPage, FALSE)
    ELSE IF method = "POST" THEN Result("none", <<>>, 501, ErrorPage, FALSE)
    ELSE send_head(method, path, cwdNode, fs)

(* ------------------------------ the process --------------------------- *)

VARIABLES
    pc,          \* position of __main__: "start", "chdir", "bound", "serving", "exited"
    cwd,         \* process working directory (a path string)
    listening,   \* the listener is bound on 127.0.0.1:PORT
    binds,       \* how many times the bind was attempted
    bindError,   \* the OSError of a failed bind, "none" otherwise
    exitCode,    \* exit status once pc = "exited"
    stdoutLines, \* lines written to standard output
    stderrLines, \* tracebacks written to standard error
    waiting,     \* connections in the listen backlog, not yet accepted
    handling,    \* connections accepted and not yet finished
    files,       \* the regular files that exist
    req,         \* the request of the current connection: [method, path]
    res,         \* what handling it left behind (see Result)
    hist         \* an earlier request and its resolution (history specification)

vars == <<pc, cwd, listening, binds, bindError, exitCode, stdoutLines, stderrLines,
          waiting, handling, files, req, res, hist>>

NoReq == [method |-> "none", path |-> <<>>]

NoRes == Result("none", <<>>, 0, NoBody, FALSE)

NoHist == [path |-> <<"none">>, rule |-> "none", resolved |-> <<>>]

\* request paths: a prefix that selects the case, then any short remainder.
\* self.path is the raw request target; no value is excluded by the parser
\* on interpreters that predate the gh-87389 collapse of a leading '//'.
Prefixes ==
    { <<>>,
      <<"/">>,
      <<"/", "/">>,
      <<"/", ".", ".", "/">>,
      <<"/", "a", "s", "s", "e", "t", "s">>,
      <<"/", "A", "s", "s", "e", "t", "s", "/">>,
      AssetsPrefix,
      AssetsPrefix \o <<"/">>,
      AssetsPrefix \o <<".", ".", "/">> }

RequestPaths == {p \o r : p \in Prefixes, r \in Strings(MaxLen)}

CwdNode == Walk(SplitSlash(cwd), RootNode)

Init ==
    /\ pc = "start"
    /\ cwd = <<"/">>
    /\ listening = FALSE
    /\ binds = 0
    /\ bindError = "none"
    /\ exitCode = 0
    /\ stdoutLines = 0
    /\ stderrLines = 0
    /\ waiting = 0
    /\ handling = 0
    /\ files \in SUBSET FileCandidates
    /\ req = NoReq
    /\ res = NoRes
    /\ hist = NoHist

\* os.chdir(DOCS_DIR)
Chdir ==
    /\ pc = "start"
    /\ pc' = "chdir"
    /\ cwd' = DOCS_DIR
    /\ UNCHANGED <<listening, binds, bindError, exitCode, stdoutLines, stderrLines,
                   waiting, handling, files, req, res, hist>>

OnBindErrorRetry == [pc |-> "chdir", exitCode |-> 0]

\* what __main__ does with the OSError of a failed bind: nothing catches it
OnBindError == [pc |-> "exited", exitCode |-> 1]

\* HTTPServer(('127.0.0.1', PORT), CatalogHandler): bind and listen succeed
BindOk ==
    /\ pc = "chdir"
    /\ pc' = "bound"
    /\ listening' = TRUE
    /\ binds' = binds + 1
    /\ UNCHANGED <<cwd, bindError, exitCode, stdoutLines, stderrLines, waiting,
                   handling, files, req, res, hist>>

\* the bind raises OSError (address in use, permission denied)
BindFail ==
    /\ pc = "chdir"
    /\ bindError' \in {"EADDRINUSE", "EACCES"}
    /\ pc' = OnBindError.pc
    /\ exitCode' = OnBindError.exitCode
    /\ binds' = binds + 1
    /\ stderrLines' = stderrLines + 1
    /\ UNCHANGED <<cwd, listening, stdoutLines, waiting, handling, files,
                   req, res, hist>>

\* print(...) and sys.stdout.flush(), then serve_forever() is entered
PrintStartup ==
    /\ pc = "bound"
    /\ pc' = "serving"
    /\ stdoutLines' = stdoutLines + 1
    /\ UNCHANGED <<cwd, listening, binds, bindError, exitCode, stderrLines, waiting,
                   handling, files, req, res, hist>>

\* a client connects; the kernel queues it while the listener is bound
Connect ==
    /\ listening
    /\ pc # "exited"
    /\ waiting < MaxBacklog
    /\ waiting' = waiting + 1
    /\ UNCHANGED <<pc, cwd, listening, binds, bindError, exitCode, stdoutLines,
                   stderrLines, handling, files, req, res, hist>>

AcceptGuardThreaded == TRUE

\* serve_forever of the plain (non-threading) HTTPServer takes the next
\* connection only when the previous request has been finished
AcceptGuard == handling = 0

Accept ==
    /\ pc = "serving"
    /\ AcceptGuard
    /\ waiting > 0
    /\ waiting' = waiting - 1
    /\ handling' = handling + 1
    /\ req' = NoReq
    /\ res' = NoRes
    /\ UNCHANGED <<pc, cwd, listening, binds, bindError, exitCode, stdoutLines,
                   stderrLines, files, hist>>

\* log_message: "pass"; the number of lines a response logs
log_message(status) == 0

AfterRaiseFatal == [pc |-> "exited", exitCode |-> 1]

\* after a handler exception socketserver prints a traceback and goes on
AfterRaise == [pc |-> "serving", exitCode |-> 0]

\* the accepted client's request arrives and is handled to the end
HandleWith(paths, remember) ==
    /\ pc = "serving"
    /\ handling > 0
    /\ \E m \in Methods :
       \E p \in (IF m \in {"GET", "HEAD"} THEN paths ELSE {<<"/">>}) :
          LET r == handle_one_request(m, p, CwdNode, files) IN
          /\ r.raised => stderrLines < MaxTracebacks
          /\ req' = [method |-> m, path |-> p]
          /\ res' = r
          /\ stdoutLines' = stdoutLines
          /\ stderrLines' = stderrLines + (IF r.raised THEN 1 ELSE log_message(r.status))
          /\ pc' = (IF r.raised THEN AfterRaise.pc ELSE "serving")
          /\ exitCode' = (IF r.raised THEN AfterRaise.exitCode ELSE exitCode)
          /\ hist' \in (IF remember /\ r.rule # "none"
                        THEN {hist, [path |-> p, rule |-> r.rule, resolved |-> r.resolved]}
                        ELSE {hist})
    /\ handling' = handling - 1
    /\ UNCHANGED <<cwd, listening, binds, bindError, waiting, files>>

Handle == HandleWith(RequestPaths, FALSE)

\* a file of the two trees is created or removed by the developer
FsChange ==
    /\ pc # "exited"
    /\ \E f \in FileCandidates :
          files' = (IF f \in files THEN files \ {f} ELSE files \cup {f})
    /\ UNCHANGED <<pc, cwd, listening, binds, bindError, exitCode, stdoutLines,
                   stderrLines, waiting, handling, req, res, hist>>

\* KeyboardInterrupt: uncaught, the with-block closes the listener
Interrupt ==
    /\ pc # "exited"
    /\ pc' = "exited"
    /\ exitCode' = 130
    /\ listening' = FALSE
    /\ stderrLines' = stderrLines + 1
    /\ UNCHANGED <<cwd, binds, bindError, stdoutLines, waiting, handling, files,
                   req, res, hist>>

Next ==
    \/ Chdir
    \/ BindOk
    \/ BindFail
    \/ PrintStartup
    \/ Connect
    \/ Accept
    \/ Handle
    \/ FsChange
    \/ Interrupt

Spec == Init /\ [][Next]_vars

(* ---------------- the same server, remembering one request ------------ *)

HistPrefixes ==
    { <<"/">>,
      <<"/", "x">>,
      <<"/", "/", "x">>,
      <<"/", "a", "s", "s", "e", "t", "s">>,
      <<"/", "A", "s", "s", "e", "t", "s", "/", "x">>,
      AssetsPrefix,
      AssetsPrefix \o <<"x">> }

HistPaths == {p \o r : p \in HistPrefixes, r \in [1..MaxLenHist -> {"/", "x"}]}

HandleHist == HandleWith(HistPaths, TRUE)

NextHist ==
    \/ Chdir
    \/ BindOk
    \/ BindFail
    \/ PrintStartup
    \/ Connect
    \/ Accept
    \/ HandleHist
    \/ FsChange
    \/ Interrupt

SpecHist == Init /\ [][NextHist]_vars

(* ------------------------------- claims ------------------------------- *)

\* the current connection's request went through translate_path
Translated == req.method \in {"GET", "HEAD"}

\* the step in which a request is handled to the end
HandleStep == handling' = handling - 1

PathX == <<"/", "x">>

PathAssetsX == AssetsPrefix \o <<"x">>

\* the path exists as a file or a directory
Exists(s) == NodeOf(s, CwdNode) \in (Dirs \cup files)

\* C1: every path that starts with '/assets/' resolves to the UI/Assets
\* directory followed by the remainder after the 8-character prefix,
\* verbatim, whatever the remainder is (empty, starting with '/', with a query).
C1_AssetsRemainderVerbatim ==
    (Translated /\ StartsWith(req.path, AssetsPrefix))
        => res.resolved = UI_DIR \o <<"/">> \o AssetsName \o <<"/">> \o SliceFrom(req.path, 8)

\* C2 as stated: every path that does not start with '/assets/' resolves to
\* the documentation root followed by the path less exactly one leading '/'.
C2_StripsOneSlash ==
    (Translated /\ ~StartsWith(req.path, AssetsPrefix))
        => res.resolved = DOCS_DIR \o <<"/">>
               \o (IF StartsWith(req.path, <<"/">>) THEN Tail(req.path) ELSE req.path)

\* C2 as amended: every path that does not start with '/assets/' resolves to
\* the documentation root followed by the path less all of its leading '/'.
C2_StripsEverySlash ==
    (Translated /\ ~StartsWith(req.path, AssetsPrefix))
        => \E k \in 0..Len(req.path) :
              /\ \A i \in 1..k : req.path[i] = "/"
              /\ k = Len(req.path) \/ req.path[k + 1] # "/"
              /\ res.resolved = DOCS_DIR \o <<"/">> \o SubSeq(req.path, k + 1, Len(req.path))

C2_Witness ==
    /\ req = [method |-> "GET", path |-> <<"/", "/", "x">>]
    /\ res.resolved = DOCS_DIR \o <<"/", "x">>
    /\ res.rule = "docs"

\* C3: whatever the request path, the file or directory whose contents are
\* returned lies inside UI/Assets (assets rule) or inside the documentation
\* root (other rule).
C3_ServedInsideRoots ==
    \A n \in FileCandidates \cup Dirs :
        (res.body = Content(n) \/ res.body = Listing(n))
            => StartsWith(n, IF res.rule = "assets" THEN AssetsNode ELSE DocsNode)

\* C4: exactly one of the two rules is applied to a request, the assets rule
\* exactly when the path starts with the case-sensitive '/assets/'; a path
\* seen before resolves by the same rule to the same filesystem path,
\* whatever was requested or created or removed in between.
C4_RuleByPrefixAlone ==
    Translated =>
        /\ res.rule \in {"assets", "docs"}
        /\ res.rule = "assets" <=> StartsWith(req.path, AssetsPrefix)
        /\ hist.path = req.path => (hist.rule = res.rule /\ hist.resolved = res.resolved)

C4_Witness ==
    /\ Translated
    /\ hist.path = req.path
    /\ req.path = PathAssetsX
    /\ res.rule = "assets"
    /\ res.status = 404

C6_MissingAnswered404 ==
    [][(HandleStep /\ req'.method \in {"GET", "HEAD"} /\ ~Exists(res'.resolved)) =>
          /\ res'.status = 404
          /\ pc' = pc /\ listening' = listening
          /\ stdoutLines' = stdoutLines /\ stderrLines' = stderrLines]_vars

\* C7: while the server runs, whatever requests it has handled, the startup
\* line is the only line written to standard output or standard error.
C7_OnlyStartupLine ==
    pc = "serving" => (stdoutLines = 1 /\ stderrLines = 0)

\* C8: a failed bind is fatal: the process has exited non-zero after a single
\* bind attempt, without listening, printing, accepting or handling anything.
C8_BindFailureFatal ==
    /\ binds <= 1
    /\ bindError # "none" =>
          /\ pc = "exited" /\ exitCode # 0
          /\ ~listening /\ stdoutLines = 0
          /\ waiting = 0 /\ handling = 0 /\ req = NoReq /\ res = NoRes

C8_Witness == bindError = "EADDRINUSE" /\ pc = "exited" /\ binds = 1

\* C9: at most one request is in progress; a waiting connection is accepted
\* only when none is; and a connection in progress ends only by its request
\* being handled or by the process exiting, never by a timeout.
C9_OneAtATime ==
    /\ [](handling <= 1)
    /\ [][waiting' < waiting => (handling = 0 /\ handling' = 1)]_vars
    /\ [][(handling > 0 /\ handling' < handling) => req' # NoReq]_vars

C9_Witness == pc = "serving" /\ handling = 1 /\ waiting = 1 /\ req = NoReq

\* C10: once serving, each handled request, whatever its outcome, leaves the
\* server accepting on the bound listener, and the server leaves the loop
\* only on the external signal.
C10_KeepsServing ==
    /\ [][HandleStep => (pc' = "serving" /\ listening')]_vars
    /\ [][(pc = "serving" /\ pc' # "serving") => (pc' = "exited" /\ exitCode' = 130)]_vars

C10_Witness ==
    /\ pc = "serving" /\ listening
    /\ stderrLines = 1
    /\ res.status = 200 /\ req.method = "GET"

====
